---------------------------- MODULE Spec2Model ----------------------------
(***************************************************************************)
(* Ash-Box: the execution orchestrator (runtime/executor.js), the frame    *)
(* demultiplexer it installs on the attached stream, and the two transport *)
(* adapters (runtime/bridge-server.js, desktop/main.js) that call it, and  *)
(* the command builders of the language registry (runtime/languages.js).   *)
(*                                                                         *)
(* One atomic action is one turn of the Node.js event loop: a callback     *)
(* from the container engine, the timer or the socket, together with all   *)
(* the promise continuations (microtasks) that run before the next         *)
(* callback.  The state of one call of runExecution is a record whose      *)
(* fields carry the names of the function's locals; its history fields     *)
(* (onLine, calls, settledAt) record what the call did to its environment. *)
(***************************************************************************)
EXTENDS Integers, Sequences, FiniteSets, TLC

VARIABLES
  run,        \* run[r]: the state of the r-th call of runExecution
  nextId,     \* the container engine: the id of the next container it creates
  isRunning,  \* the adapter's module-level flag
  req,        \* req[r]: the adapter's handler for the r-th run request
  sent,       \* main.js: the events sent to the renderer, in order
  mainWindow, \* main.js: the BrowserWindow, "open" or "destroyed"
  app         \* the adapter the process runs: "bridge" (bridge-server.js),
              \* "desktop" (desktop/main.js) or "legacy" (main.js)

vars == <<run, nextId, isRunning, req, sent, mainWindow, app>>

----------------------------------------------------------------------------
(* Bounds of the model *)

\* Requests (and so calls of runExecution) followed by one behaviour.
MaxRuns == 2
\* Frames in the byte stream a container writes (demultiplexer specification).
MaxFrames == 2
\* Tokens in a dependency list handed to buildCommand (SpecBuild).
MaxDeps == 2
\* Characters of the dependency text of a run request (SpecInput).
MaxText == 3

Runs == 1..MaxRuns

----------------------------------------------------------------------------
(* Constants of the program *)

\* the line feed payload.split('\n') splits on
NL == 10
\* result?.StatusCode absent (the ?? 1 of line 145 applies)
NoStatus == -1

LANGUAGES == {"python", "javascript", "go", "ruby", "java", "c", "cpp"}

\* LANGUAGES is an object literal, so a lookup by name also finds what the
\* object inherits from Object.prototype (toString, constructor, __proto__,
\* valueOf, ...): functions and objects, none of which has a fileName.
ObjectPrototypeKeys == {"toString", "constructor"}

\* !LANGUAGES[languageId]: the lookup found nothing, own or inherited.
LookupIsFalsy(languageId) ==
  languageId \notin LANGUAGES /\ languageId \notin ObjectPrototypeKeys

\* Language ids a caller passes: two registry keys, one name that is no key
\* and one that is no key but is inherited by the registry object.
LanguageIds == {"python", "go", "cobol", "toString"}
\* Dependency lists a caller passes (already tokenized; a token is its
\* character codes): none, and the one token "rq".
DependencyLists == {<<>>, << <<114, 113>> >>}
\* Statuses container.wait() resolves with (137: ended by SIGKILL).
StatusCodes == {0, 1, 137, NoStatus}
\* Payloads of the frames a program's output arrives in ("a" is 97): empty,
\* part of a line, a line feed alone, a whole line, the end of one line and
\* the start of the next, a line and the start of the next.
FramePayloads ==
  { <<>>, <<97>>, <<NL>>, <<97, NL>>, <<NL, 97>>, <<97, NL, 97>> }
\* Frame types the engine writes: 1 = stdout, 2 = stderr.
FrameTypes == {1, 2}

----------------------------------------------------------------------------
(* Output lines: what onLine(line, type) was called with.  text names the  *)
(* notice (or is "" for a line of program output), data carries its        *)
(* variable part: the bytes of a program line, the exit code, the message. *)

Line(type, text, data) == [type |-> type, text |-> text, data |-> data]

System(text, data) == Line("system", text, data)

\* onLine(line, type): the call is recorded in the run's history.
OnLine(s, l) == [s EXCEPT !.onLine = Append(@, l)]

RECURSIVE OnLines(_, _)
OnLines(s, ls) ==
  IF ls = <<>> THEN s ELSE OnLines(OnLine(s, Head(ls)), Tail(ls))

\* A call of the container engine (or of fs) is recorded in the history.
Called(s, op) == [s EXCEPT !.calls = Append(@, op)]

----------------------------------------------------------------------------
(* The demultiplexer: stream.on('data', chunk => ...)                      *)

\* buffer.readUInt32BE(4): bytes 4..7 of the buffer, big-endian (1-based 5..8)
ReadUInt32BE(buffer) ==
  buffer[5] * 16777216 + buffer[6] * 65536 + buffer[7] * 256 + buffer[8]

\* A byte count as the four big-endian bytes of a frame header.
UInt32BE(n) ==
  << (n \div 16777216) % 256, (n \div 65536) % 256, (n \div 256) % 256, n % 256 >>

\* One frame as the engine writes it: [type, 0, 0, 0, size(4)] then the payload.
FrameBytes(f) == <<f.type, 0, 0, 0>> \o UInt32BE(Len(f.payload)) \o f.payload

RECURSIVE StreamBytes(_)
StreamBytes(frames) ==
  IF frames = <<>> THEN <<>>
  ELSE FrameBytes(Head(frames)) \o StreamBytes(Tail(frames))

\* payload.split('\n'): the pieces between line feeds, empty pieces included.
RECURSIVE SplitNL(_, _)
SplitNL(bytes, piece) ==
  IF bytes = <<>> THEN <<piece>>
  ELSE IF Head(bytes) = NL THEN <<piece>> \o SplitNL(Tail(bytes), <<>>)
  ELSE SplitNL(Tail(bytes), Append(piece, Head(bytes)))

\* buffer.slice(8, 8 + size).toString('utf8'): the payload bytes are ASCII
\* here, so each byte decodes to the code point of the same value.
ToStringUtf8(bytes) == [i \in 1..Len(bytes) |-> bytes[i]]

\* streamType === 1 ? 'stdout' : 'stderr'
StreamTypeNameOfOne(streamType) == IF streamType = 1 THEN "stdout" ELSE "stderr"

\* streamType === 2 ? 'stderr' : 'stdout'
StreamTypeName(streamType) == IF streamType = 2 THEN "stderr" ELSE "stdout"

\* if (line.length > 0) onLine(line, type)
ForwardLine(line) == Len(line) > 0

\* payload.split('\n').forEach(line => { if (line.length > 0) onLine(line, type) })
RECURSIVE PayloadLines(_, _)
PayloadLines(pieces, type) ==
  IF pieces = <<>> THEN <<>>
  ELSE (IF ForwardLine(Head(pieces)) THEN <<Line(type, "", Head(pieces))>> ELSE <<>>)
       \o PayloadLines(Tail(pieces), type)

\* buffer = chunk: what was buffered is dropped
BufferConcatDropsRest(buffer, chunk) == chunk

\* Buffer.concat([buffer, chunk])
BufferConcat(buffer, chunk) == buffer \o chunk

\* while (buffer.length >= 8) { ... }: the frames the buffer holds whole are
\* taken off its front; what is left stays buffered.
RECURSIVE DrainFrames(_)
DrainFrames(buffer) ==
  IF Len(buffer) < 8 THEN [buffer |-> buffer, lines |-> <<>>]
  ELSE LET streamType == buffer[1]
           size == ReadUInt32BE(buffer)
       IN IF Len(buffer) < 8 + size THEN [buffer |-> buffer, lines |-> <<>>]
          ELSE LET payload == ToStringUtf8(SubSeq(buffer, 9, 8 + size))
                   rest == DrainFrames(SubSeq(buffer, 9 + size, Len(buffer)))
               IN [buffer |-> rest.buffer,
                   lines |-> PayloadLines(SplitNL(payload, <<>>),
                                          StreamTypeName(streamType))
                             \o rest.lines]

\* The 'data' handler applied to one chunk, on the run's buffer.
OnData(s, chunk) ==
  LET d == DrainFrames(BufferConcat(s.buffer, chunk))
  IN OnLines([s EXCEPT !.buffer = d.buffer], d.lines)

----------------------------------------------------------------------------
(* languages.js: the registry's buildCommand functions.  A string is the   *)
(* sequence of its character codes; a template literal is the              *)
(* concatenation of its pieces.                                            *)

\* 'cp /input/script.py . && '
PythonCopy ==
  << 99, 112, 32, 47, 105, 110, 112, 117, 116, 47, 115, 99, 114, 105, 112,
     116, 46, 112, 121, 32, 46, 32, 38, 38, 32 >>

\* 'pip install --quiet '
PythonInstall ==
  << 112, 105, 112, 32, 105, 110, 115, 116, 97, 108, 108, 32, 45, 45, 113,
     117, 105, 101, 116, 32 >>

\* 'python script.py'
PythonRun ==
  << 112, 121, 116, 104, 111, 110, 32, 115, 99, 114, 105, 112, 116, 46,
     112, 121 >>

\* 'cp /input/script.js . && '
JavascriptCopy ==
  << 99, 112, 32, 47, 105, 110, 112, 117, 116, 47, 115, 99, 114, 105, 112,
     116, 46, 106, 115, 32, 46, 32, 38, 38, 32 >>

\* 'npm install --silent '
JavascriptInstall ==
  << 110, 112, 109, 32, 105, 110, 115, 116, 97, 108, 108, 32, 45, 45, 115,
     105, 108, 101, 110, 116, 32 >>

\* 'node script.js'
JavascriptRun ==
  << 110, 111, 100, 101, 32, 115, 99, 114, 105, 112, 116, 46, 106, 115 >>

\* 'cp /input/script.go . && go run script.go'
GoCommand ==
  << 99, 112, 32, 47, 105, 110, 112, 117, 116, 47, 115, 99, 114, 105, 112,
     116, 46, 103, 111, 32, 46, 32, 38, 38, 32, 103, 111, 32, 114, 117,
     110, 32, 115, 99, 114, 105, 112, 116, 46, 103, 111 >>

\* 'cp /input/script.rb . && '
RubyCopy ==
  << 99, 112, 32, 47, 105, 110, 112, 117, 116, 47, 115, 99, 114, 105, 112,
     116, 46, 114, 98, 32, 46, 32, 38, 38, 32 >>

\* 'gem install --silent '
RubyInstall ==
  << 103, 101, 109, 32, 105, 110, 115, 116, 97, 108, 108, 32, 45, 45, 115,
     105, 108, 101, 110, 116, 32 >>

\* 'ruby script.rb'
RubyRun == <<114, 117, 98, 121, 32, 115, 99, 114, 105, 112, 116, 46, 114, 98>>

\* 'cp /input/Main.java . && javac Main.java && java Main'
JavaCommand ==
  << 99, 112, 32, 47, 105, 110, 112, 117, 116, 47, 77, 97, 105, 110, 46,
     106, 97, 118, 97, 32, 46, 32, 38, 38, 32, 106, 97, 118, 97, 99, 32,
     77, 97, 105, 110, 46, 106, 97, 118, 97, 32, 38, 38, 32, 106, 97, 118,
     97, 32, 77, 97, 105, 110 >>

\* 'cp /input/script.c . && gcc script.c -o prog -lm && ./prog'
CCommand ==
  << 99, 112, 32, 47, 105, 110, 112, 117, 116, 47, 115, 99, 114, 105, 112,
     116, 46, 99, 32, 46, 32, 38, 38, 32, 103, 99, 99, 32, 115, 99, 114,
     105, 112, 116, 46, 99, 32, 45, 111, 32, 112, 114, 111, 103, 32, 45,
     108, 109, 32, 38, 38, 32, 46, 47, 112, 114, 111, 103 >>

\* 'cp /input/script.cpp . && g++ script.cpp -o prog -lm && ./prog'
CppCommand ==
  << 99, 112, 32, 47, 105, 110, 112, 117, 116, 47, 115, 99, 114, 105, 112,
     116, 46, 99, 112, 112, 32, 46, 32, 38, 38, 32, 103, 43, 43, 32, 115,
     99, 114, 105, 112, 116, 46, 99, 112, 112, 32, 45, 111, 32, 112, 114,
     111, 103, 32, 45, 108, 109, 32, 38, 38, 32, 46, 47, 112, 114, 111,
     103 >>

\* ' && '
AndThen == <<32, 38, 38, 32>>

\* ' '
Space == <<32>>

\* '"'
Quote == <<34>>

\* deps.join(sep)
RECURSIVE Join(_, _)
Join(list, sep) ==
  IF list = <<>> THEN <<>>
  ELSE IF Len(list) = 1 THEN list[1]
  ELSE list[1] \o sep \o Join(Tail(list), sep)

\* deps.map(d => `"${d}"`)
QuoteEach(deps) == [i \in 1..Len(deps) |-> Quote \o deps[i] \o Quote]

\* the install stage built whatever the list holds
DepsAlwaysGiven(deps) == TRUE

\* deps.length > 0
DepsGiven(deps) == Len(deps) > 0

\* LANGUAGES[languageId].buildCommand(deps), for a registry key
buildCommand(languageId, deps) ==
  CASE languageId = "python" ->
         PythonCopy
         \o (IF DepsGiven(deps)
             THEN PythonInstall \o Join(QuoteEach(deps), Space) \o AndThen
             ELSE <<>>)
         \o PythonRun
    [] languageId = "javascript" ->
         JavascriptCopy
         \o (IF DepsGiven(deps)
             THEN JavascriptInstall \o Join(deps, Space) \o AndThen
             ELSE <<>>)
         \o JavascriptRun
    [] languageId = "go" -> GoCommand
    [] languageId = "ruby" ->
         RubyCopy
         \o (IF DepsGiven(deps)
             THEN RubyInstall \o Join(deps, Space) \o AndThen
             ELSE <<>>)
         \o RubyRun
    [] languageId = "java" -> JavaCommand
    [] languageId = "c" -> CCommand
    [] languageId = "cpp" -> CppCommand

----------------------------------------------------------------------------
(* runExecution(code, languageId, dependencies, onLine)                    *)

\* The locals of a call before it is made, and the bytes its container will
\* write once started.
NewRun(stream) ==
  [ pc            |-> "idle",     \* where the call is suspended
    languageId    |-> "",
    dependencies  |-> <<>>,
    shellCmd      |-> <<>>,       \* const shellCmd = lang.buildCommand(...)
    inputDir      |-> "none",     \* none | exists | deleted
    image         |-> "unchecked", \* history: what inspect() found
    container     |-> 0,          \* let container = null
    timeoutHandle |-> "null",     \* null | armed | fired | cleared
    timedOut      |-> FALSE,
    kill          |-> "none",     \* kill(): none | pending | settled | failed
    removed       |-> "none",     \* container.remove(): none | ok | failed
    handler       |-> FALSE,      \* stream.on('data', ...) registered
    buffer        |-> <<>>,
    result        |-> <<>>,       \* <<status>> once wait() won the race
    exitCode      |-> NoStatus,   \* the exitCode of the returned object
    onLine        |-> <<>>,       \* history: the onLine calls, in order
    calls         |-> <<>>,       \* history: the engine and fs calls, in order
    settledAt     |-> -1,         \* history: Len(onLine) when the promise settled
    stream        |-> stream,     \* environment: the bytes the container writes
    pos           |-> 0,          \* environment: how many were delivered
    cuts          |-> {} ]        \* history: where chunks ended inside a frame

Settled(s) == s.pc \in {"done", "rejected"}

\* return { exitCode }: the promise resolves.
Resolve(s) == [s EXCEPT !.pc = "done", !.settledAt = Len(s.onLine)]

\* An exception leaves the async function: the promise rejects.
Reject(s) == [s EXCEPT !.pc = "rejected", !.settledAt = Len(s.onLine)]

\* a race left without clearTimeout
TimerLeftArmed(s) == s

\* clearTimeout(timeoutHandle): a pending timer is cancelled; null, a fired
\* or a cleared handle are left as they are.
ClearTimeout(s) ==
  [s EXCEPT !.timeoutHandle = IF @ = "armed" THEN "cleared" ELSE @]

\* fs.rmSync(inputDir, { recursive: true, force: true }) in try/catch
RmSync(s, rmOk) ==
  Called([s EXCEPT !.inputDir = IF rmOk THEN "deleted" ELSE @], "rmSync")

\* the finally block with its removal made unconditional
ContainerIsSetAlways(container) == TRUE

\* if (container): the finally block removes only a container that was created
ContainerIsSet(container) == container # 0

\* the end of the finally block without its notice
FinallyTailSilent(s, rmOk) == Resolve(RmSync(s, rmOk))

\* the end of the finally block with its notice inside the try, after the
\* awaited remove(): a failed removal skips it
FinallyTailOnSuccess(s, rmOk) ==
  Resolve(RmSync(IF s.removed = "ok"
                 THEN OnLine(s, System("Container destroyed", <<>>))
                 ELSE s, rmOk))

\* finally, after the removal (if any) settled: the notice, the staging
\* directory, and the promise resolves with the value already returned.
FinallyTail(s, rmOk) ==
  Resolve(RmSync(IF ContainerIsSet(s.container)
                 THEN OnLine(s, System("Container destroyed", <<>>))
                 ELSE s, rmOk))

\* finally { ... }: with a container, remove({ force: true }) is called and
\* awaited; without one the block runs to its end at once.
Finally(s, rmOk) ==
  IF ContainerIsSet(s.container)
  THEN Called([s EXCEPT !.pc = "remove"], "remove")
  ELSE FinallyTail(s, rmOk)

\* catch (err) { ... } that returns without the finally block's cleanup
CatchSkipsCleanup(s, message, rmOk) ==
  LET c == ClearTimeout(s)
      prefix == IF c.timedOut THEN "TIMEOUT" ELSE "ERROR"
  IN Resolve([OnLine(c, System(prefix, <<message>>)) EXCEPT !.exitCode = 1])

\* catch (err) { ... } followed by finally
Catch(s, message, rmOk) ==
  LET c == ClearTimeout(s)
      prefix == IF c.timedOut THEN "TIMEOUT" ELSE "ERROR"
  IN Finally([OnLine(c, System(prefix, <<message>>)) EXCEPT !.exitCode = 1], rmOk)

\* else { ... }: the exit-code notice whatever timedOut says
ExitNoticeAlways(timedOut) == TRUE

\* else if (!timedOut): the exit-code notice of a non-zero exit
ExitNoticeAllowed(timedOut) == ~timedOut

\* result.StatusCode taken as it comes
StatusCodeAsIs(status) == status

\* result?.StatusCode ?? 1
StatusCodeOr1(status) == IF status = NoStatus THEN 1 ELSE status

\* Lines 143-152: the race was won by container.wait().
AfterWait(s, status, rmOk) ==
  LET c == ClearTimeout([s EXCEPT !.result = <<status>>])
      exitCode == StatusCodeOr1(status)
      n == IF exitCode = 0
           THEN OnLine(c, System("Completed successfully", <<>>))
           ELSE IF ExitNoticeAllowed(c.timedOut)
           THEN OnLine(c, System("Exited with code", <<exitCode>>))
           ELSE c
  IN Finally([n EXCEPT !.exitCode = exitCode], rmOk)

\* the notice given only by the languages whose entry has hasDeps: true
AnnouncesInstallIfHasDeps(languageId, dependencies) ==
  Len(dependencies) > 0 /\ languageId \in {"python", "javascript", "ruby"}

\* if (dependencies.length > 0): the notice does not look at the language
AnnouncesInstall(languageId, dependencies) == Len(dependencies) > 0

\* Lines 42-71: the call, up to its first await.  fs is what the file system
\* does to mkdirSync and writeFileSync, which stand outside the try block.
runExecution(s, languageId, dependencies, fs) ==
  LET a == [s EXCEPT !.languageId = languageId, !.dependencies = dependencies]
  IN IF LookupIsFalsy(languageId)
     THEN Resolve([OnLine(a, System("Unknown language", <<languageId>>))
                   EXCEPT !.exitCode = 1])
     ELSE IF fs = "mkdirFails"
     THEN Reject(Called(a, "mkdirSync"))
     ELSE IF languageId \notin LANGUAGES
     THEN \* lang.fileName is undefined: path.join(inputDir, undefined) throws
          Reject(Called([a EXCEPT !.inputDir = "exists"], "mkdirSync"))
     ELSE IF fs = "writeFails"
     THEN Reject(Called(Called([a EXCEPT !.inputDir = "exists"], "mkdirSync"),
                        "writeFileSync"))
     ELSE LET w == Called(Called([a EXCEPT !.inputDir = "exists"], "mkdirSync"),
                          "writeFileSync")
              l == OnLine(w, System("Language", <<languageId>>))
              i == IF AnnouncesInstall(languageId, dependencies)
                   THEN OnLine(l, System("Installing", dependencies))
                   ELSE l
              b == [i EXCEPT !.shellCmd = buildCommand(languageId, dependencies)]
          IN Called([b EXCEPT !.pc = "inspect"], "inspect")

FsOutcomes == {"ok", "mkdirFails", "writeFails"}

\* The call is made (by an adapter or directly).
Call(r, languageId, dependencies, fs) ==
  /\ run[r].pc = "idle"
  /\ run' = [run EXCEPT ![r] = runExecution(@, languageId, dependencies, fs)]
  /\ UNCHANGED nextId

\* What docker.getImage(BASE_IMAGE).inspect() can answer: the image's
\* description, a 404 (no such image), or a failure to reach the engine.
ImageOutcomes == {"present", "absent", "unreachable"}

\* docker.getImage(BASE_IMAGE).inspect() settles (lines 70-74, then 79):
\* catch (_) replaces whatever inspect() rejected with by the one message.
InspectSettles(r, image, rmOk) ==
  /\ run[r].pc = "inspect"
  /\ run' = [run EXCEPT ![r] =
       LET i == [@ EXCEPT !.image = image]
       IN IF image = "present"
          THEN Called([i EXCEPT !.pc = "create"], "createContainer")
          ELSE Catch(i, "Base image not found", rmOk)]
  /\ UNCHANGED nextId

\* Lines 99-128 with start() called before attach()
AfterCreateStartsFirst(s, id) ==
  Called([OnLine([s EXCEPT !.container = id],
                 System("Container created", <<>>))
          EXCEPT !.pc = "start"], "start")

\* Lines 99-106 with the handle kept in one place for all calls
AfterCreateOneHandle(s, id) ==
  Called([OnLine([s EXCEPT !.container = 1],
                 System("Container created", <<>>))
          EXCEPT !.pc = "attach"], "attach")

\* Lines 99-106 after createContainer resolved: the notice, then attach.
AfterCreate(s, id) ==
  Called([OnLine([s EXCEPT !.container = id],
                 System("Container created", <<>>))
          EXCEPT !.pc = "attach"], "attach")

\* docker.createContainer(...) settles.
CreateSettles(r, ok, rmOk) ==
  /\ run[r].pc = "create"
  /\ IF ok
     THEN /\ run' = [run EXCEPT ![r] = AfterCreate(@, nextId)]
          /\ nextId' = nextId + 1
     ELSE /\ run' = [run EXCEPT ![r] = Catch(@, "createContainer failed", rmOk)]
          /\ UNCHANGED nextId

\* Lines 111-128 after attach resolved: the handler is registered, then start.
AfterAttach(s) ==
  Called([s EXCEPT !.handler = TRUE, !.pc = "start"], "start")

\* container.attach(...) settles.
AttachSettles(r, ok, rmOk) ==
  /\ run[r].pc = "attach"
  /\ run' = [run EXCEPT ![r] =
       IF ok THEN AfterAttach(@) ELSE Catch(@, "attach failed", rmOk)]
  /\ UNCHANGED nextId

\* Lines 129-142 after start resolved: the notice, wait() is called, the
\* timer is armed and the call awaits the race.
AfterStart(s) ==
  [Called(OnLine(s, System("Execution started", <<>>)), "wait")
   EXCEPT !.timeoutHandle = "armed", !.pc = "race"]

\* container.start() settles.  A start that fails has started nothing, so it
\* is not an outcome once bytes of the container were delivered.
StartSettles(r, ok, rmOk) ==
  /\ run[r].pc = "start"
  /\ ok \/ run[r].pos = 0
  /\ run' = [run EXCEPT ![r] =
       IF ok THEN AfterStart(@) ELSE Catch(@, "start failed", rmOk)]
  /\ UNCHANGED nextId

\* container.wait() resolves with a status while the call awaits the race.
WaitResolves(r, status, rmOk) ==
  /\ run[r].pc = "race"
  /\ run' = [run EXCEPT ![r] = AfterWait(@, status, rmOk)]
  /\ UNCHANGED nextId

\* container.wait() rejects while the call awaits the race.
WaitRejects(r, rmOk) ==
  /\ run[r].pc = "race"
  /\ run' = [run EXCEPT ![r] = Catch(@, "wait failed", rmOk)]
  /\ UNCHANGED nextId

\* Lines 134-136: the timer callback up to its await.  Every path that leaves
\* the race clears the timer in the same turn, so an armed timer fires only
\* while the call awaits the race.
TimerFires(r) ==
  /\ run[r].timeoutHandle = "armed"
  /\ run' = [run EXCEPT ![r] =
       Called([@ EXCEPT !.timedOut = TRUE, !.timeoutHandle = "fired",
                        !.kill = "pending"], "kill")]
  /\ UNCHANGED nextId

\* Line 137: container.kill() settled (try/catch swallows its failure), the
\* timeout promise is rejected.  The rejection reaches the call only if it
\* still awaits the race.
KillSettles(r, ok, rmOk) ==
  /\ run[r].kill = "pending"
  /\ run' = [run EXCEPT ![r] =
       LET k == [@ EXCEPT !.kill = IF ok THEN "settled" ELSE "failed"]
       IN IF k.pc = "race"
          THEN Catch(k, "Execution exceeded timeout", rmOk)
          ELSE k]
  /\ UNCHANGED nextId

\* container.remove({ force: true }) settles, its failure leaving the
\* function as an exception
RemoveFailureRejects(r, ok, rmOk) ==
  /\ run[r].pc = "remove"
  /\ run' = [run EXCEPT ![r] =
       IF ok THEN FinallyTail([@ EXCEPT !.removed = "ok"], rmOk)
       ELSE Reject([@ EXCEPT !.removed = "failed"])]
  /\ UNCHANGED nextId

\* container.remove({ force: true }) settles (its failure is swallowed).
RemoveSettles(r, ok, rmOk) ==
  /\ run[r].pc = "remove"
  /\ run' = [run EXCEPT ![r] =
       FinallyTail([@ EXCEPT !.removed = IF ok THEN "ok" ELSE "failed"], rmOk)]
  /\ UNCHANGED nextId

\* Where a chunk that ends after n bytes of the stream cuts it: inside a
\* frame's header, inside (or just before) its payload, or between frames.
CutKind(stream, n) ==
  LET rest == DrainFrames(SubSeq(stream, 1, n)).buffer
  IN IF rest = <<>> THEN {}
     ELSE IF Len(rest) < 8 THEN {"header"} ELSE {"payload"}

\* The attached stream emits 'data' with the next k bytes.  The container
\* writes once start() was called; the handler is never removed and the
\* stream is never awaited, so bytes in flight arrive whenever they arrive.
StreamData(r, k) ==
  /\ run[r].handler
  /\ run[r].timeoutHandle # "null" \/ run[r].pc = "start"
  /\ run[r].pos + k <= Len(run[r].stream)
  /\ run' = [run EXCEPT ![r] =
       [OnData(@, SubSeq(@.stream, @.pos + 1, @.pos + k))
        EXCEPT !.pos = @ + k,
               !.cuts = @ \cup CutKind(run[r].stream, run[r].pos + k)]]
  /\ UNCHANGED nextId

----------------------------------------------------------------------------
(* Frames and streams the environment draws from *)

\* The sequences over S of length at most n.
RECURSIVE SeqsUpTo(_, _)
SeqsUpTo(S, n) ==
  IF n = 0 THEN {<<>>}
  ELSE LET shorter == SeqsUpTo(S, n - 1)
       IN shorter \cup {Append(q, x) : q \in shorter, x \in S}

Frame(type, payload) == [type |-> type, payload |-> payload]

\* What python's print("hi") writes: "hi\n" on stdout, in one frame.
HiFrames == <<Frame(1, <<104, 105, NL>>)>>

\* What a short program writes: nothing, a line on stdout, or a line on
\* stdout and then one on stderr.
RunFrames ==
  { <<>>,
    HiFrames,
    <<Frame(1, <<97, NL>>)>>,
    <<Frame(1, <<97, NL>>), Frame(2, <<97, NL>>)>> }

\* Chunk lengths that end on a frame boundary of the stream (or at its end).
FrameAlignedChunks(s) ==
  { k \in 1..(Len(s.stream) - s.pos) :
      DrainFrames(SubSeq(s.stream, 1, s.pos + k)).buffer = <<>> }

----------------------------------------------------------------------------
(* Spec: calls of runExecution made directly, followed through every       *)
(* outcome of the file system, the engine, the timer and the stream.       *)

adapterVars == <<isRunning, req, sent, mainWindow, app>>

\* A request not yet made.  payload is <<p>> once the handler has the
\* payload p (history: what the request asked for); languages is the list
\* a request for the language list is answered with.
NewRequest ==
  [pc |-> "new", reply |-> "none", payload |-> <<>>, languages |-> <<>>]

InitAdapter ==
  /\ isRunning = FALSE
  /\ req = [r \in Runs |-> NewRequest]
  /\ sent = <<>>
  /\ mainWindow = "open"
  /\ app = "desktop"

\* A step of the call alone: no adapter is involved.
Direct(A) == A /\ UNCHANGED adapterVars

\* The call followed is the first; the others are never made.
Init ==
  /\ run \in { [r \in Runs |-> NewRun(IF r = 1 THEN StreamBytes(fs) ELSE <<>>)] :
               fs \in RunFrames }
  /\ nextId = 1
  /\ InitAdapter

Next ==
  \/ \E languageId \in LanguageIds, dependencies \in DependencyLists,
        fs \in FsOutcomes :
       Direct(Call(1, languageId, dependencies, fs))
  \/ \E image \in ImageOutcomes, rmOk \in BOOLEAN :
       Direct(InspectSettles(1, image, rmOk))
  \/ \E ok \in BOOLEAN, rmOk \in BOOLEAN : Direct(CreateSettles(1, ok, rmOk))
  \/ \E ok \in BOOLEAN, rmOk \in BOOLEAN : Direct(AttachSettles(1, ok, rmOk))
  \/ \E ok \in BOOLEAN, rmOk \in BOOLEAN : Direct(StartSettles(1, ok, rmOk))
  \/ \E status \in StatusCodes, rmOk \in BOOLEAN :
       Direct(WaitResolves(1, status, rmOk))
  \/ \E rmOk \in BOOLEAN : Direct(WaitRejects(1, rmOk))
  \/ Direct(TimerFires(1))
  \/ \E ok \in BOOLEAN, rmOk \in BOOLEAN : Direct(KillSettles(1, ok, rmOk))
  \/ \E ok \in BOOLEAN, rmOk \in BOOLEAN : Direct(RemoveSettles(1, ok, rmOk))
  \/ \E k \in FrameAlignedChunks(run[1]) : Direct(StreamData(1, k))

Spec == Init /\ [][Next]_vars

\* A call of the container engine that is awaited returns or fails.
EngineReturns ==
  \/ \E image \in ImageOutcomes, rmOk \in BOOLEAN :
       Direct(InspectSettles(1, image, rmOk))
  \/ \E ok \in BOOLEAN, rmOk \in BOOLEAN : Direct(CreateSettles(1, ok, rmOk))
  \/ \E ok \in BOOLEAN, rmOk \in BOOLEAN : Direct(AttachSettles(1, ok, rmOk))
  \/ \E ok \in BOOLEAN, rmOk \in BOOLEAN : Direct(StartSettles(1, ok, rmOk))
  \/ \E status \in StatusCodes, rmOk \in BOOLEAN :
       Direct(WaitResolves(1, status, rmOk))
  \/ \E rmOk \in BOOLEAN : Direct(WaitRejects(1, rmOk))
  \/ \E ok \in BOOLEAN, rmOk \in BOOLEAN : Direct(KillSettles(1, ok, rmOk))
  \/ \E ok \in BOOLEAN, rmOk \in BOOLEAN : Direct(RemoveSettles(1, ok, rmOk))

\* Spec with an engine whose calls all settle and a timer that fires when it
\* stays armed: pending promises and an armed setTimeout are served by the
\* event loop as long as the process lives.
SpecFair ==
  Spec /\ WF_vars(EngineReturns) /\ WF_vars(Direct(TimerFires(1)))

----------------------------------------------------------------------------
(* The adapters' input handling.  A string is the sequence of its          *)
(* character codes; a payload field is <<v>> when it holds the string v    *)
(* and <<>> when it is missing or no string.                               *)

\* \s, for the characters the payloads below use: space, tab, LF, CR
IsSpace(c) == c \in {32, 9, 10, 13}

\* [\s,]
IsSeparator(c) == IsSpace(c) \/ c = 44

\* String.prototype.trim
RECURSIVE TrimStart(_)
TrimStart(str) ==
  IF str # <<>> /\ IsSpace(Head(str)) THEN TrimStart(Tail(str)) ELSE str

RECURSIVE TrimEnd(_)
TrimEnd(str) ==
  IF str # <<>> /\ IsSpace(str[Len(str)])
  THEN TrimEnd(SubSeq(str, 1, Len(str) - 1)) ELSE str

Trim(str) == TrimEnd(TrimStart(str))

\* value.split(/[\s,]+/): the pieces between maximal runs of separators; a
\* leading or trailing run leaves an empty piece at that end.
RECURSIVE SplitSeparators(_, _, _)
SplitSeparators(str, piece, inRun) ==
  IF str = <<>> THEN <<piece>>
  ELSE IF IsSeparator(Head(str))
  THEN IF inRun THEN SplitSeparators(Tail(str), piece, TRUE)
       ELSE <<piece>> \o SplitSeparators(Tail(str), <<>>, TRUE)
  ELSE SplitSeparators(Tail(str), Append(piece, Head(str)), FALSE)

\* .map(dep => dep.trim()) with no filter after it
TrimOnly(pieces) == [i \in 1..Len(pieces) |-> Trim(pieces[i])]

\* .map(dep => dep.trim()).filter(Boolean)
RECURSIVE TrimAndFilter(_)
TrimAndFilter(pieces) ==
  IF pieces = <<>> THEN <<>>
  ELSE LET dep == Trim(Head(pieces))
       IN (IF dep # <<>> THEN <<dep>> ELSE <<>>) \o TrimAndFilter(Tail(pieces))

parseDependencies(value) ==
  TrimAndFilter(SplitSeparators(value, <<>>, FALSE))

\* typeof data.x === 'string' ? data.x : ''
StringOrEmpty(field, empty) == IF Len(field) = 1 THEN field[1] ELSE empty

normalizeRunPayload(payload) ==
  [ code         |-> StringOrEmpty(payload.code, <<>>),
    languageId   |-> StringOrEmpty(payload.languageId, ""),
    dependencies |-> StringOrEmpty(payload.dependencies, <<>>) ]

\* !code.trim()
CodeIsBlank(code) == Trim(code) = <<>>

Payload(code, languageId, dependencies) ==
  [code |-> code, languageId |-> languageId, dependencies |-> dependencies]

\* The payloads a client sends: a program "x" in a known language with the
\* dependency text " a, b"; in a language that is no registry key; without a
\* language; blank code; no code at all.
Payloads ==
  { Payload(<< <<120>> >>, <<"python">>, << <<32, 97, 44, 32, 98>> >>),
    Payload(<< <<120>> >>, <<"cobol">>, <<>>),
    Payload(<< <<120>> >>, <<>>, <<>>),
    Payload(<< <<32, 10>> >>, <<"python">>, <<>>),
    Payload(<<>>, <<"python">>, <<>>) }

\* A request body: JSON of a payload, or text readBody or JSON.parse fails on.
Bodies == {<<p>> : p \in Payloads} \cup {<<>>}

\* What the adapters' specifications let fs.rmSync, container.kill(),
\* container.wait() and inspect() answer; every answer is followed in Spec.
AdapterOks == {TRUE}
AdapterStatuses == {0}
AdapterImages == {"present", "absent"}

\* Requests are numbered in the order they arrive.
Arrived(r) == r \in Runs => req[r].pc # "new"

Replied(q, reply) == [q EXCEPT !.pc = "replied", !.reply = reply]

----------------------------------------------------------------------------
(* runtime/bridge-server.js: POST /run                                     *)

\* Lines 130-134: the request arrives; the flag is read before the body.
BridgePostRun(r) ==
  /\ req[r].pc = "new"
  /\ Arrived(r - 1)
  /\ req' = [req EXCEPT ![r] =
       IF isRunning THEN Replied(@, "409 already in progress")
       ELSE [@ EXCEPT !.pc = "readBody"]]
  /\ UNCHANGED <<run, nextId, isRunning, sent, mainWindow, app>>

\* Lines 160-165: the call settled; the response is sent and the flag reset.
BridgeCallSettled(q, s) ==
  Replied(q, IF s.pc = "done" THEN "200 exitCode" ELSE "500 error")

\* Lines 136-165 once the body has been read ('end' or 'error' of the
\* request): parse, validate, set the flag and call runExecution; a call
\* that settles without suspending is answered in the same turn.
BridgeBodyRead(r, body, fs) ==
  /\ req[r].pc = "readBody"
  /\ IF body = <<>>
     THEN /\ req' = [req EXCEPT ![r] = Replied(@, "400 invalid request")]
          /\ UNCHANGED <<run, nextId, isRunning>>
     ELSE LET p == normalizeRunPayload(body[1])
              dependencies == parseDependencies(p.dependencies)
              q == [req[r] EXCEPT !.payload = body]
          IN IF CodeIsBlank(p.code)
             THEN /\ req' = [req EXCEPT ![r] = Replied(q, "400 code is required")]
                  /\ UNCHANGED <<run, nextId, isRunning>>
             ELSE /\ Call(r, p.languageId, dependencies, fs)
                  /\ IF Settled(run'[r])
                     THEN /\ req' = [req EXCEPT ![r] = BridgeCallSettled(q, run'[r])]
                          /\ isRunning' = FALSE
                     ELSE /\ req' = [req EXCEPT ![r] = [q EXCEPT !.pc = "running"]]
                          /\ isRunning' = TRUE
  /\ UNCHANGED <<sent, mainWindow, app>>

\* An event of call r under the bridge: when it settles the call, the
\* handler's continuation (lines 160-165) runs in the same turn.
Bridge(r, A) ==
  /\ A
  /\ IF req[r].pc = "running" /\ Settled(run'[r])
     THEN /\ req' = [req EXCEPT ![r] = BridgeCallSettled(@, run'[r])]
          /\ isRunning' = FALSE
     ELSE UNCHANGED <<req, isRunning>>
  /\ UNCHANGED <<sent, mainWindow, app>>

\* The adapters' specifications follow programs that write nothing: what
\* the stream delivers, and when, is followed in Spec and SpecDemux.
AdapterFrames == <<>>

InitAdapterRuns ==
  /\ run = [r \in Runs |-> NewRun(StreamBytes(AdapterFrames))]
  /\ nextId = 1
  /\ InitAdapter

NextBridge ==
  \E r \in Runs :
    \/ BridgePostRun(r)
    \/ \E body \in Bodies, fs \in FsOutcomes : BridgeBodyRead(r, body, fs)
    \/ \E image \in AdapterImages, rmOk \in AdapterOks :
         Bridge(r, InspectSettles(r, image, rmOk))
    \/ \E ok \in BOOLEAN, rmOk \in AdapterOks : Bridge(r, CreateSettles(r, ok, rmOk))
    \/ \E ok \in BOOLEAN, rmOk \in AdapterOks : Bridge(r, AttachSettles(r, ok, rmOk))
    \/ \E ok \in BOOLEAN, rmOk \in AdapterOks : Bridge(r, StartSettles(r, ok, rmOk))
    \/ \E status \in AdapterStatuses, rmOk \in AdapterOks :
         Bridge(r, WaitResolves(r, status, rmOk))
    \/ Bridge(r, TimerFires(r))
    \/ \E ok \in AdapterOks, rmOk \in AdapterOks :
         Bridge(r, KillSettles(r, ok, rmOk))
    \/ \E ok \in BOOLEAN, rmOk \in AdapterOks : Bridge(r, RemoveSettles(r, ok, rmOk))

SpecBridge == InitAdapterRuns /\ [][NextBridge]_vars

----------------------------------------------------------------------------
(* desktop/main.js and its predecessor main.js: ipcMain.handle('run-code') *)

NoLine == Line("", "", <<>>)

\* mainWindow.webContents.send('execution-state', { running })
ExecutionState(running) ==
  [channel |-> "execution-state", running |-> running, line |-> NoLine]

\* mainWindow.webContents.send('output-line', { line, type })
OutputLine(l) == [channel |-> "output-line", running |-> FALSE, line |-> l]

\* if (mainWindow && !mainWindow.isDestroyed()) mainWindow.webContents.send(...)
GuardedSend(events) == IF mainWindow = "open" THEN events ELSE <<>>

\* The onLine callback of the handler, applied to the lines a turn emitted.
OutputLines(before, after) ==
  [i \in 1..(Len(after.onLine) - Len(before.onLine)) |->
     OutputLine(after.onLine[Len(before.onLine) + i])]

\* try { return { exitCode } } catch (err) { return { error } }
IpcCallSettled(q, s) ==
  Replied(q, IF s.pc = "done" THEN "exitCode" ELSE "error")

\* Lines 83-106 of desktop/main.js (64-88 of main.js): the flag is set, the
\* state event sent, runExecution called; a call that settles without
\* suspending is answered, and the flag reset, in the same turn.
IpcStartRun(r, q, languageId, dependencies, fs) ==
  /\ Call(r, languageId, dependencies, fs)
  /\ IF Settled(run'[r])
     THEN /\ req' = [req EXCEPT ![r] = IpcCallSettled(q, run'[r])]
          /\ isRunning' = FALSE
          /\ sent' = sent \o GuardedSend(<<ExecutionState(TRUE)>>
                                         \o OutputLines(run[r], run'[r])
                                         \o <<ExecutionState(FALSE)>>)
     ELSE /\ req' = [req EXCEPT ![r] = [q EXCEPT !.pc = "running"]]
          /\ isRunning' = TRUE
          /\ sent' = sent \o GuardedSend(<<ExecutionState(TRUE)>>
                                         \o OutputLines(run[r], run'[r]))

\* desktop/main.js lines 68-97 with the check of the flag left out.
DesktopRunCodeUnchecked(r, payload, fs) ==
  LET p == normalizeRunPayload(payload)
      q == [req[r] EXCEPT !.payload = <<payload>>]
  IN IF CodeIsBlank(p.code)
     THEN /\ req' = [req EXCEPT ![r] = Replied(q, "Code is required")]
          /\ UNCHANGED <<run, nextId, isRunning, sent>>
     ELSE IF LookupIsFalsy(p.languageId)
     THEN /\ req' = [req EXCEPT ![r] = Replied(q, "Unsupported language")]
          /\ UNCHANGED <<run, nextId, isRunning, sent>>
     ELSE IpcStartRun(r, q, p.languageId, parseDependencies(p.dependencies), fs)

\* desktop/main.js lines 68-97 with the flag set and the state event sent
\* before the input is validated.
DesktopRunCodeFlagFirst(r, payload, fs) ==
  LET p == normalizeRunPayload(payload)
      q == [req[r] EXCEPT !.payload = <<payload>>]
  IN IF isRunning
     THEN /\ req' = [req EXCEPT ![r] =
               Replied(q, "An execution is already in progress")]
          /\ UNCHANGED <<run, nextId, isRunning, sent>>
     ELSE IF CodeIsBlank(p.code) \/ LookupIsFalsy(p.languageId)
     THEN /\ req' = [req EXCEPT ![r] =
               Replied(q, IF CodeIsBlank(p.code) THEN "Code is required"
                          ELSE "Unsupported language")]
          /\ isRunning' = TRUE
          /\ sent' = sent \o GuardedSend(<<ExecutionState(TRUE)>>)
          /\ UNCHANGED <<run, nextId>>
     ELSE IpcStartRun(r, q, p.languageId, parseDependencies(p.dependencies), fs)

\* desktop/main.js lines 68-97: the handler up to its await.
DesktopRunCode(r, payload, fs) ==
  LET p == normalizeRunPayload(payload)
      q == [req[r] EXCEPT !.payload = <<payload>>]
  IN IF CodeIsBlank(p.code)
     THEN /\ req' = [req EXCEPT ![r] = Replied(q, "Code is required")]
          /\ UNCHANGED <<run, nextId, isRunning, sent>>
     ELSE IF LookupIsFalsy(p.languageId)
     THEN /\ req' = [req EXCEPT ![r] = Replied(q, "Unsupported language")]
          /\ UNCHANGED <<run, nextId, isRunning, sent>>
     ELSE IF isRunning
     THEN /\ req' = [req EXCEPT ![r] =
               Replied(q, "An execution is already in progress")]
          /\ UNCHANGED <<run, nextId, isRunning, sent>>
     ELSE IpcStartRun(r, q, p.languageId, parseDependencies(p.dependencies), fs)

\* main.js (src/unnamed/part_003) lines 59-79: the handler up to its await.
\* The payload's fields are used as they come: the unguarded send throws on
\* a destroyed window and dependencies.split on a value that is no string,
\* both after the flag was set and outside the try block; code that is no
\* string makes fs.writeFileSync throw inside runExecution.
LegacyRunCode(r, payload, fs) ==
  LET q == [req[r] EXCEPT !.payload = <<payload>>]
  IN IF isRunning
     THEN /\ req' = [req EXCEPT ![r] =
               Replied(q, "An execution is already in progress")]
          /\ UNCHANGED <<run, nextId, isRunning, sent>>
     ELSE IF mainWindow # "open"
     THEN /\ req' = [req EXCEPT ![r] = Replied(q, "handler threw")]
          /\ isRunning' = TRUE
          /\ UNCHANGED <<run, nextId, sent>>
     ELSE IF Len(payload.dependencies) # 1
     THEN /\ req' = [req EXCEPT ![r] = Replied(q, "handler threw")]
          /\ isRunning' = TRUE
          /\ sent' = sent \o <<ExecutionState(TRUE)>>
          /\ UNCHANGED <<run, nextId>>
     ELSE IpcStartRun(r, q, StringOrEmpty(payload.languageId, "undefined"),
                      parseDependencies(payload.dependencies[1]),
                      IF Len(payload.code) # 1 /\ fs = "ok"
                      THEN "writeFails" ELSE fs)

\* A 'run-code' request reaches the main process.
IpcRunCode(r, payload, fs) ==
  /\ req[r].pc = "new"
  /\ Arrived(r - 1)
  /\ IF app = "desktop" THEN DesktopRunCode(r, payload, fs)
     ELSE LegacyRunCode(r, payload, fs)
  /\ UNCHANGED <<mainWindow, app>>

\* An event of call r under the IPC handler: the lines it emits are sent to
\* the renderer; when it settles the call, the handler's finally block
\* (desktop/main.js lines 101-106) runs in the same turn.
Ipc(r, A) ==
  /\ A
  /\ IF req[r].pc = "running" /\ Settled(run'[r])
     THEN /\ req' = [req EXCEPT ![r] = IpcCallSettled(@, run'[r])]
          /\ isRunning' = FALSE
          /\ sent' = sent \o GuardedSend(OutputLines(run[r], run'[r])
                                         \o <<ExecutionState(FALSE)>>)
     ELSE /\ sent' = sent \o GuardedSend(OutputLines(run[r], run'[r]))
          /\ UNCHANGED <<req, isRunning>>
  /\ UNCHANGED <<mainWindow, app>>

\* The user closes the window (on macOS the process lives on).
WindowDestroyed ==
  /\ mainWindow = "open"
  /\ mainWindow' = "destroyed"
  /\ UNCHANGED <<run, nextId, isRunning, req, sent, app>>

InitIpc ==
  /\ run = [r \in Runs |-> NewRun(StreamBytes(AdapterFrames))]
  /\ nextId = 1
  /\ isRunning = FALSE
  /\ req = [r \in Runs |-> NewRequest]
  /\ sent = <<>>
  /\ mainWindow = "open"
  /\ app \in {"desktop", "legacy"}

NextIpc ==
  \/ WindowDestroyed
  \/ \E r \in Runs :
       \/ \E payload \in Payloads, fs \in FsOutcomes : IpcRunCode(r, payload, fs)
       \/ \E image \in AdapterImages, rmOk \in AdapterOks :
            Ipc(r, InspectSettles(r, image, rmOk))
       \/ \E ok \in BOOLEAN, rmOk \in AdapterOks : Ipc(r, CreateSettles(r, ok, rmOk))
       \/ \E ok \in BOOLEAN, rmOk \in AdapterOks : Ipc(r, AttachSettles(r, ok, rmOk))
       \/ \E ok \in BOOLEAN, rmOk \in AdapterOks : Ipc(r, StartSettles(r, ok, rmOk))
       \/ \E status \in AdapterStatuses, rmOk \in AdapterOks :
            Ipc(r, WaitResolves(r, status, rmOk))
       \/ Ipc(r, TimerFires(r))
       \/ \E ok \in AdapterOks, rmOk \in AdapterOks :
            Ipc(r, KillSettles(r, ok, rmOk))
       \/ \E ok \in BOOLEAN, rmOk \in AdapterOks : Ipc(r, RemoveSettles(r, ok, rmOk))

SpecIpc == InitIpc /\ [][NextIpc]_vars

----------------------------------------------------------------------------
(* SpecDemux: the demultiplexer alone.  A call has reached its await of    *)
(* container.start(); the container writes any sequence of complete frames *)
(* and the stream delivers it in chunks cut anywhere.                      *)

\* A frame whose first header byte is neither 1 nor 2 (0 marks stdin).
OtherFrame == Frame(0, <<97, NL>>)

AllFrames ==
  {Frame(type, payload) : type \in FrameTypes, payload \in FramePayloads}
    \cup {OtherFrame}

\* The frames the container wrote, recovered from the stream's bytes.
RECURSIVE FramesOf(_)
FramesOf(bytes) ==
  IF Len(bytes) < 8 THEN <<>>
  ELSE LET size == ReadUInt32BE(bytes)
       IN <<Frame(bytes[1], SubSeq(bytes, 9, 8 + size))>>
          \o FramesOf(SubSeq(bytes, 9 + size, Len(bytes)))

\* The state of a python call without dependencies whose image check,
\* createContainer and attach succeeded: start() was called, the handler is on.
AwaitingStart(stream) ==
  AfterAttach(AfterCreate(
    Called([runExecution(NewRun(stream), "python", <<>>, "ok")
            EXCEPT !.pc = "create", !.image = "present"], "createContainer"), 1))

InitDemux ==
  /\ run \in { [r \in Runs |-> IF r = 1 THEN AwaitingStart(StreamBytes(fs))
                               ELSE NewRun(<<>>)] :
               fs \in SeqsUpTo(AllFrames, MaxFrames) }
  /\ nextId = 2
  /\ InitAdapter

NextDemux ==
  \E k \in 1..(Len(run[1].stream) - run[1].pos) : Direct(StreamData(1, k))

SpecDemux == InitDemux /\ [][NextDemux]_vars

----------------------------------------------------------------------------
(* SpecBuild: the command builders.  One call of runExecution is made, in  *)
(* any language of the registry and with any list of the tokens below; the *)
(* command it hands to createContainer is its shellCmd.                    *)

\* Dependency tokens (no whitespace, no comma, as parseDependencies leaves
\* them): 'rq', 'b', 'a;node' and '/input/script.js'.
BuildTokens ==
  { <<114, 113>>, <<98>>, <<97, 59, 110, 111, 100, 101>>,
    <<47, 105, 110, 112, 117, 116, 47, 115, 99, 114, 105, 112, 116, 46, 106, 115>> }

InitBuild ==
  /\ run = [r \in Runs |-> NewRun(<<>>)]
  /\ nextId = 1
  /\ InitAdapter

NextBuild ==
  \E languageId \in LANGUAGES, dependencies \in SeqsUpTo(BuildTokens, MaxDeps) :
    Direct(Call(1, languageId, dependencies, "ok"))

SpecBuild == InitBuild /\ [][NextBuild]_vars

----------------------------------------------------------------------------
(* The language list: ipcMain.handle('get-languages') and GET /languages   *)

\* The values of the registry's fields: a string, a boolean, null or a
\* function, tagged so that values of different kinds can be compared.
Str(s) == [type |-> "string", str |-> s, bool |-> FALSE]
Bool(b) == [type |-> "boolean", str |-> "", bool |-> b]
Null == [type |-> "null", str |-> "", bool |-> FALSE]
Function(name) == [type |-> "function", str |-> name, bool |-> FALSE]

\* The keys of LANGUAGES in the order the object literal inserts them.
RegistryKeys == <<"python", "javascript", "go", "ruby", "java", "c", "cpp">>

\* LANGUAGES[key]
LanguageEntry(key) ==
  CASE key = "python" ->
         [id |-> Str("python"), label |-> Str("Python"),
          monacoLanguage |-> Str("python"), fileName |-> Str("script.py"),
          hasDeps |-> Bool(TRUE), depsLabel |-> Str("pip packages"),
          depsPlaceholder |-> Str("e.g. requests langchain numpy"),
          buildCommand |-> Function("buildCommand")]
    [] key = "javascript" ->
         [id |-> Str("javascript"), label |-> Str("JavaScript"),
          monacoLanguage |-> Str("javascript"), fileName |-> Str("script.js"),
          hasDeps |-> Bool(TRUE), depsLabel |-> Str("npm packages"),
          depsPlaceholder |-> Str("e.g. axios lodash dayjs"),
          buildCommand |-> Function("buildCommand")]
    [] key = "go" ->
         [id |-> Str("go"), label |-> Str("Go"),
          monacoLanguage |-> Str("go"), fileName |-> Str("script.go"),
          hasDeps |-> Bool(FALSE), depsLabel |-> Null,
          depsPlaceholder |-> Null,
          buildCommand |-> Function("buildCommand")]
    [] key = "ruby" ->
         [id |-> Str("ruby"), label |-> Str("Ruby"),
          monacoLanguage |-> Str("ruby"), fileName |-> Str("script.rb"),
          hasDeps |-> Bool(TRUE), depsLabel |-> Str("gems"),
          depsPlaceholder |-> Str("e.g. httparty nokogiri"),
          buildCommand |-> Function("buildCommand")]
    [] key = "java" ->
         [id |-> Str("java"), label |-> Str("Java"),
          monacoLanguage |-> Str("java"), fileName |-> Str("Main.java"),
          hasDeps |-> Bool(FALSE), depsLabel |-> Null,
          depsPlaceholder |-> Null,
          buildCommand |-> Function("buildCommand")]
    [] key = "c" ->
         [id |-> Str("c"), label |-> Str("C"),
          monacoLanguage |-> Str("c"), fileName |-> Str("script.c"),
          hasDeps |-> Bool(FALSE), depsLabel |-> Null,
          depsPlaceholder |-> Null,
          buildCommand |-> Function("buildCommand")]
    [] key = "cpp" ->
         [id |-> Str("cpp"), label |-> Str("C++"),
          monacoLanguage |-> Str("cpp"), fileName |-> Str("script.cpp"),
          hasDeps |-> Bool(FALSE), depsLabel |-> Null,
          depsPlaceholder |-> Null,
          buildCommand |-> Function("buildCommand")]

\* Object.values(LANGUAGES)
ObjectValues == [i \in 1..Len(RegistryKeys) |-> LanguageEntry(RegistryKeys[i])]

\* The fields the handlers' arrow function destructures and returns.
ListedFields == {"id", "label", "hasDeps", "depsLabel", "depsPlaceholder"}

\* The arrow function returning the registry entry itself.
ListWholeEntry(entry) == entry

\* ({ id, label, hasDeps, depsLabel, depsPlaceholder }) => ({ ... })
ListEntry(entry) == [f \in ListedFields |-> entry[f]]

\* Object.values(LANGUAGES).map(...)
getLanguages == [i \in 1..Len(ObjectValues) |-> ListEntry(ObjectValues[i])]

\* What a client reads from JSON.stringify(body): strings, booleans and
\* null are kept, a property whose value is a function is left out.
JsonStringify(list) ==
  [i \in 1..Len(list) |->
     [f \in {g \in DOMAIN list[i] : list[i][g].type # "function"} |->
        list[i][f]]]

\* desktop/main.js lines 58-66: the handler's return value is the reply.
IpcGetLanguages(r) ==
  /\ req[r].pc = "new"
  /\ Arrived(r - 1)
  /\ req' = [req EXCEPT ![r] =
       [Replied(@, "languages") EXCEPT !.languages = getLanguages]]
  /\ UNCHANGED <<run, nextId, isRunning, sent, mainWindow, app>>

\* runtime/bridge-server.js lines 113-123: sendJson(res, 200, list)
BridgeGetLanguages(r) ==
  /\ req[r].pc = "new"
  /\ Arrived(r - 1)
  /\ req' = [req EXCEPT ![r] =
       [Replied(@, "200 languages") EXCEPT
          !.languages = JsonStringify(getLanguages)]]
  /\ UNCHANGED <<run, nextId, isRunning, sent, mainWindow, app>>

----------------------------------------------------------------------------
(* SpecInput: what the adapters make of their input.  The process is the   *)
(* bridge or the desktop application; requests arrive one after another,   *)
(* for a run or for the language list, and the first run request carries   *)
(* any dependency text over the alphabet below.  The calls a run request   *)
(* starts stay at their first await: what follows is followed in           *)
(* SpecBridge and SpecIpc.                                                 *)

\* 'a', 'b', space, comma, line feed
InputAlphabet == {97, 98, 32, 44, 10}

\* ' a, b  c ,'
SpacedList == <<32, 97, 44, 32, 98, 32, 32, 99, 32, 44>>

DependencyTexts == SeqsUpTo(InputAlphabet, MaxText) \cup {SpacedList}

InputPayloads(r) ==
  IF r = 1
  THEN Payloads \cup
       { Payload(<< <<120>> >>, <<"python">>, <<text>>) :
           text \in DependencyTexts }
  ELSE Payloads

InitInput ==
  /\ run = [r \in Runs |-> NewRun(StreamBytes(AdapterFrames))]
  /\ nextId = 1
  /\ isRunning = FALSE
  /\ req = [r \in Runs |-> NewRequest]
  /\ sent = <<>>
  /\ mainWindow = "open"
  /\ app \in {"bridge", "desktop"}

NextInput ==
  \E r \in Runs :
    \/ app = "bridge" /\ BridgePostRun(r)
    \/ /\ app = "bridge"
       /\ req[r].pc = "readBody"
       /\ \E p \in InputPayloads(r) : BridgeBodyRead(r, <<p>>, "ok")
    \/ app = "bridge" /\ BridgeBodyRead(r, <<>>, "ok")
    \/ app = "bridge" /\ BridgeGetLanguages(r)
    \/ /\ app = "desktop"
       /\ req[r].pc = "new"
       /\ \E p \in InputPayloads(r) : IpcRunCode(r, p, "ok")
    \/ app = "desktop" /\ IpcGetLanguages(r)

SpecInput == InitInput /\ [][NextInput]_vars

----------------------------------------------------------------------------
(* Properties of the demultiplexer *)

\* The lines of program output among the onLine calls, in order.
ProgramLines(s) == SelectSeq(s.onLine, LAMBDA l : l.type # "system")

\* The lines the handler forwards when the first n bytes of the stream reach
\* it as one chunk, on an empty buffer.
OneChunkLines(s, n) ==
  ProgramLines(OnData([s EXCEPT !.buffer = <<>>, !.onLine = <<>>],
                      SubSeq(s.stream, 1, n)))

\* C9: however the bytes delivered so far were cut into chunks (inside a
\* header, inside a payload), the demultiplexer has forwarded the same
\* (line, channel) sequence as if they had come as one chunk.
C9_ChunkingIsInvisible ==
  \A r \in Runs :
    run[r].handler => ProgramLines(run[r]) = OneChunkLines(run[r], run[r].pos)

\* C9 witness: a stream of two frames was delivered whole, by chunks that cut
\* it inside a header and inside a payload, and lines were forwarded.
C9_Witness ==
  /\ run[1].pos = Len(run[1].stream)
  /\ Len(FramesOf(run[1].stream)) = 2
  /\ run[1].cuts = {"header", "payload"}
  /\ Len(ProgramLines(run[1])) >= 2

\* C8 (the claim as stated): when two consecutive frames of one channel were
\* delivered, the lines forwarded are the lines of their joined payloads, so
\* a line split across the two frames is forwarded once, whole.
C8_SplitLineForwardedWhole ==
  LET s == run[1]
      fs == FramesOf(s.stream)
  IN (s.handler /\ s.pos = Len(s.stream) /\ Len(fs) = 2 /\ fs[1].type = fs[2].type)
     => ProgramLines(s) =
          PayloadLines(SplitNL(ToStringUtf8(fs[1].payload \o fs[2].payload), <<>>),
                       StreamTypeName(fs[1].type))

----------------------------------------------------------------------------
(* Properties of runExecution (Spec) *)

\* The engine or fs operation op was called by the run.
HasCalled(s, op) == \E i \in 1..Len(s.calls) : s.calls[i] = op

CallCount(s, op) == Cardinality({i \in 1..Len(s.calls) : s.calls[i] = op})

\* The run emitted the system notice named text.
HasNotice(s, text) ==
  \E i \in 1..Len(s.onLine) : s.onLine[i].type = "system" /\ s.onLine[i].text = text

\* The index of the first call of op (0 if it was never called).
FirstCall(s, op) ==
  IF HasCalled(s, op)
  THEN CHOOSE i \in 1..Len(s.calls) :
         s.calls[i] = op /\ \A j \in 1..(i - 1) : s.calls[j] # op
  ELSE 0

\* The call is made and has not settled.
InFlight(s) == s.pc \notin {"idle", "done", "rejected"}

\* C3: when a call on a known language has resolved, fs.rmSync was called on
\* the staging directory, and container.remove was called exactly once if a
\* container was created (and never otherwise).
C3_CleanupOnEveryOutcome ==
  \A r \in Runs :
    LET s == run[r]
    IN (s.pc = "done" /\ s.languageId \in LANGUAGES)
       => /\ CallCount(s, "rmSync") = 1
          /\ CallCount(s, "remove") = (IF s.container # 0 THEN 1 ELSE 0)
          /\ s.container # 0 => s.removed # "none"

\* C3 witness: a call that failed after its container was created (attach or
\* start rejected) resolved with the directory deleted and the removal made.
C3_Witness ==
  /\ run[1].pc = "done"
  /\ run[1].container # 0
  /\ HasNotice(run[1], "ERROR")
  /\ run[1].inputDir = "deleted"
  /\ run[1].removed = "ok"

\* C4 (the claim as stated): no call rejects, and a call that created its
\* staging directory has tried to delete it by the time it settles.
C4_NeverRejectsAndReleasesStaging ==
  \A r \in Runs :
    /\ run[r].pc # "rejected"
    /\ (Settled(run[r]) /\ HasCalled(run[r], "mkdirSync"))
         => HasCalled(run[r], "rmSync")

\* C5: a resolved call whose timer fired has timedOut set, has called
\* container.kill(), and has emitted no 'Exited with code N' notice, whether
\* kill() or wait() settled first.
C5_TimeoutMarksAndKills ==
  \A r \in Runs :
    LET s == run[r]
    IN (Settled(s) /\ s.timeoutHandle = "fired")
       => /\ s.pc = "done"
          /\ s.timedOut
          /\ HasCalled(s, "kill")
          /\ ~HasNotice(s, "Exited with code")

\* C5 witness: the timer fired, wait() resolved with 137 before kill()
\* settled, and the call has resolved.
C5_Witness ==
  /\ run[1].pc = "done"
  /\ run[1].timeoutHandle = "fired"
  /\ run[1].kill = "pending"
  /\ run[1].exitCode = 137

\* C6 (the claim as stated): a resolved call whose timer fired has emitted a
\* TIMEOUT notice and returns exitCode 1.
C6_TimeoutReportedAndExitOne ==
  \A r \in Runs :
    LET s == run[r]
    IN (s.pc = "done" /\ s.timeoutHandle = "fired")
       => HasNotice(s, "TIMEOUT") /\ s.exitCode = 1

\* C7 (the claim as stated): once the promise has settled, onLine is not
\* called again: the calls made are those made when it settled.
C7_NoLineAfterSettle ==
  \A r \in Runs :
    Settled(run[r]) => Len(run[r].onLine) = run[r].settledAt

\* The run emitted 'ERROR: <message>'.
HasError(s, message) ==
  \E i \in 1..Len(s.onLine) :
    /\ s.onLine[i].type = "system"
    /\ s.onLine[i].text = "ERROR"
    /\ s.onLine[i].data = <<message>>

\* C10: start() is called only with the 'data' handler registered and after
\* attach() was called; a run whose attach() failed never calls start().
C10_AttachBeforeStart ==
  \A r \in Runs :
    LET s == run[r]
    IN /\ HasCalled(s, "start")
            => /\ s.handler
               /\ HasCalled(s, "attach")
               /\ FirstCall(s, "attach") < FirstCall(s, "start")
       /\ HasError(s, "attach failed") => ~HasCalled(s, "start")

\* C10 witness: start() was called, after attach() resolved, and succeeded.
C10_Witness ==
  /\ HasCalled(run[1], "start")
  /\ run[1].handler
  /\ HasNotice(run[1], "Execution started")

----------------------------------------------------------------------------
(* Properties of the adapters (SpecBridge, SpecIpc) *)

BusyReply == "An execution is already in progress"

\* C1 (the claim as stated): under the bridge at most one call of
\* runExecution is in flight, and a request answered 409 made no call.
C1_BridgeAtMostOneInFlight ==
  /\ Cardinality({r \in Runs : InFlight(run[r])}) <= 1
  /\ \A r \in Runs :
       req[r].reply = "409 already in progress" => run[r].pc = "idle"

\* The step in which the handler of request r runs up to its first return
\* or await, with the flag set.
ArrivesWhileRunning(r) ==
  isRunning /\ req[r].pc = "new" /\ req'[r].pc # "new"

\* The payload passes desktop/main.js's validation (lines 71-77).
PassesValidation(payload) ==
  LET p == normalizeRunPayload(payload)
  IN ~CodeIsBlank(p.code) /\ ~LookupIsFalsy(p.languageId)

\* C2 (the claim as stated): a 'run-code' request that arrives while
\* isRunning is true is answered 'An execution is already in progress' and
\* changes neither the runs, the flag nor the events sent.
C2_Original ==
  [][\A r \in Runs :
       ArrivesWhileRunning(r)
         => /\ req'[r].reply = BusyReply
            /\ UNCHANGED <<run, nextId, isRunning, sent>>]_vars

\* C2 (amended): a 'run-code' request that arrives while isRunning is true
\* calls nothing, writes nothing, sends nothing and leaves the flag as it is;
\* it is answered 'An execution is already in progress' if it passes the
\* handler's validation (always, in main.js, which validates nothing) and
\* with the validation error otherwise; and at most one call of runExecution
\* is in flight.
C2_BusyRequestHasNoEffect ==
  /\ [](Cardinality({r \in Runs : InFlight(run[r])}) <= 1)
  /\ [][\A r \in Runs :
          ArrivesWhileRunning(r)
            => /\ req'[r].pc = "replied"
               /\ (app = "legacy" \/ PassesValidation(req'[r].payload[1]))
                    => req'[r].reply = BusyReply
               /\ req'[r].reply \in
                    {BusyReply, "Code is required", "Unsupported language"}
               /\ UNCHANGED <<run, nextId, isRunning, sent>>]_vars

\* C2 witness: a valid request was answered 'already in progress' while
\* another request's call is in flight.
C2_Witness ==
  \E r, q \in Runs :
    /\ req[r].reply = BusyReply
    /\ PassesValidation(req[r].payload[1])
    /\ InFlight(run[q])
    /\ run[r].pc = "idle"

----------------------------------------------------------------------------
(* Properties of runExecution's failure paths (Spec) *)

\* C11 (the claim as stated): a call with a languageId that is no key of
\* LANGUAGES has made exactly one onLine call, on the system channel, has
\* resolved with exitCode 1, and has called neither fs (no staging
\* directory) nor the container engine; it has not thrown.
C11_UnknownLanguageOneNotice ==
  \A r \in Runs :
    LET s == run[r]
    IN (s.pc # "idle" /\ s.languageId \notin LANGUAGES)
       => /\ s.pc = "done"
          /\ Len(s.onLine) = 1
          /\ s.onLine[1].type = "system"
          /\ s.exitCode = 1
          /\ s.inputDir = "none"
          /\ s.calls = <<>>

\* The run emitted 'ERROR: <message>' with a message other than the
\* missing-image one.
HasOtherError(s) ==
  \E i \in 1..Len(s.onLine) :
    /\ s.onLine[i].type = "system"
    /\ s.onLine[i].text = "ERROR"
    /\ s.onLine[i].data # <<"Base image not found">>

\* C12 (the claim as stated): a run has emitted the missing-base-image
\* notice if and only if inspect() reported the image absent; a run whose
\* inspect() failed for another reason has emitted another ERROR notice
\* instead.
C12_MissingImageNoticeIffAbsent ==
  \A r \in Runs :
    LET s == run[r]
    IN /\ HasError(s, "Base image not found") <=> s.image = "absent"
       /\ (s.image = "unreachable" /\ s.pc = "done") => HasOtherError(s)

----------------------------------------------------------------------------
(* Properties of runExecution's results and notices (Spec) *)

\* The system notices among the onLine calls, in order.
SystemNotices(s) == SelectSeq(s.onLine, LAMBDA l : l.type = "system")

\* The run of the scenario: python, print("hi"), no dependencies, and the
\* container exited with status 0.
HiRun(s) ==
  /\ s.languageId = "python"
  /\ s.dependencies = <<>>
  /\ s.stream = StreamBytes(HiFrames)
  /\ s.result = <<0>>

\* C14 (the claim as stated): when the run of the scenario has resolved, the
\* callbacks hold exactly one stdout line, 'hi', the result is exitCode 0,
\* and the last system notice emitted is 'Completed successfully'.
C14_HiScenario ==
  \A r \in Runs :
    LET s == run[r]
    IN (HiRun(s) /\ s.pc = "done")
       => /\ ProgramLines(s) = <<Line("stdout", "", <<104, 105>>)>>
          /\ s.exitCode = 0
          /\ SystemNotices(s)[Len(SystemNotices(s))].text = "Completed successfully"

\* How many times the run emitted the system notice named text.
NoticeCount(s, text) ==
  Cardinality({i \in 1..Len(s.onLine) :
                 s.onLine[i].type = "system" /\ s.onLine[i].text = text})

\* C15: when container.wait() has won the race and the timer has not fired,
\* the exit code returned is the container's StatusCode (1 if there is
\* none); 'Completed successfully' is emitted (once) iff that code is 0, and
\* 'Exited with code N' is emitted (once, with N the returned code) iff it is
\* not 0.
C15_ExitCodeAndNotice ==
  \A r \in Runs :
    LET s == run[r]
    IN (s.result # <<>> /\ ~s.timedOut)
       => /\ s.result[1] # NoStatus => s.exitCode = s.result[1]
          /\ s.result[1] = NoStatus => s.exitCode = 1
          /\ NoticeCount(s, "Completed successfully")
               = (IF s.exitCode = 0 THEN 1 ELSE 0)
          /\ NoticeCount(s, "Exited with code")
               = (IF s.exitCode # 0 THEN 1 ELSE 0)
          /\ \A i \in 1..Len(s.onLine) :
               s.onLine[i].text = "Exited with code"
                 => s.onLine[i].data = <<s.exitCode>>

\* C15 witness: wait() resolved without a StatusCode before the timer fired;
\* the run resolved with exitCode 1 after 'Exited with code 1'.
C15_Witness ==
  /\ run[1].pc = "done"
  /\ run[1].result = <<NoStatus>>
  /\ ~run[1].timedOut
  /\ run[1].exitCode = 1
  /\ \E i \in 1..Len(run[1].onLine) :
       run[1].onLine[i] = System("Exited with code", <<1>>)

\* C16: 'Container destroyed' is never emitted twice, and never by a run
\* that holds no container (unknown language, staging failure, image check
\* or createContainer failed); a settled run whose createContainer returned
\* a handle has emitted it exactly once, after its removal attempt settled.
C16_DestroyedNoticeIffCreated ==
  \A r \in Runs :
    LET s == run[r]
    IN /\ NoticeCount(s, "Container destroyed") <= 1
       /\ s.container = 0 => ~HasNotice(s, "Container destroyed")
       /\ HasNotice(s, "Container destroyed") => s.removed # "none"
       /\ Settled(s)
            => NoticeCount(s, "Container destroyed")
                 = (IF HasNotice(s, "Container created") THEN 1 ELSE 0)
       /\ HasNotice(s, "Container created") <=> s.container # 0

\* C16 witness: a run that created its container and completed has resolved
\* with one 'Container destroyed' notice, its last.
C16_Witness ==
  /\ run[1].pc = "done"
  /\ run[1].container # 0
  /\ HasNotice(run[1], "Completed successfully")
  /\ NoticeCount(run[1], "Container destroyed") = 1
  /\ SystemNotices(run[1])[Len(SystemNotices(run[1]))].text = "Container destroyed"

----------------------------------------------------------------------------
(* Properties of the teardown (Spec) *)

\* container.kill(), container.remove() or fs.rmSync failed in the run.
TeardownFailed(s) ==
  \/ s.kill = "failed"
  \/ s.removed = "failed"
  \/ HasCalled(s, "rmSync") /\ s.inputDir = "exists"

\* C17: a run in which kill(), remove() or the staging deletion failed does
\* not reject; it resolves with the exit code of its primary outcome (the
\* container's status if wait() won the race, 1 after an error or the
\* timeout); after a failed remove() the staging deletion is still
\* attempted, and after a failed kill() so are the removal and the deletion;
\* and no step changes an exit code once it is decided.
C17_TeardownErrorsSwallowed ==
  /\ [](\A r \in Runs :
         LET s == run[r]
         IN TeardownFailed(s)
            => /\ s.pc # "rejected"
               /\ s.removed = "failed" => HasCalled(s, "rmSync")
               /\ (s.kill = "failed" /\ Settled(s))
                    => HasCalled(s, "remove") /\ HasCalled(s, "rmSync")
               /\ s.pc = "done"
                    => IF s.result = <<>>
                       THEN s.exitCode = 1
                       ELSE s.exitCode =
                              (IF s.result[1] = NoStatus THEN 1 ELSE s.result[1]))
  /\ [][\A r \in Runs :
          run[r].exitCode # NoStatus => run'[r].exitCode = run[r].exitCode]_vars

\* C17 witness: after the timeout, kill(), remove() and the staging
\* deletion all failed, and the run resolved with exitCode 1 and its TIMEOUT
\* notice.
C17_Witness ==
  /\ run[1].pc = "done"
  /\ run[1].kill = "failed"
  /\ run[1].removed = "failed"
  /\ run[1].inputDir = "exists"
  /\ HasCalled(run[1], "rmSync")
  /\ HasNotice(run[1], "TIMEOUT")
  /\ run[1].exitCode = 1

\* The call has ended in failure: it rejected, or it resolved with an exit
\* code other than 0, or its timer fired.
Failed(s) ==
  Settled(s) /\ (s.pc = "rejected" \/ s.exitCode # 0 \/ s.timedOut)

\* C18 (the claim as stated): a call that has ended in failure made at
\* least one onLine call on the system channel before it settled.
C18_FailureHasSystemLine ==
  \A r \in Runs :
    LET s == run[r]
    IN Failed(s)
       => \E i \in 1..s.settledAt : s.onLine[i].type = "system"

----------------------------------------------------------------------------
(* Properties of the command builders (SpecBuild) *)

\* str begins with prefix.
HasPrefix(str, prefix) ==
  Len(str) >= Len(prefix) /\ SubSeq(str, 1, Len(prefix)) = prefix

\* needle occurs in str.
Contains(str, needle) ==
  \E i \in 0..(Len(str) - Len(needle)) :
    SubSeq(str, i + 1, i + Len(needle)) = needle

\* The positions of str at which an occurrence of sep starts.
Occurrences(str, sep) ==
  {i \in 1..(Len(str) - Len(sep) + 1) : SubSeq(str, i, i + Len(sep) - 1) = sep}

\* The pieces of str left when the cuts are taken out, read left to right.
\* A cut is [at |-> its first position, len |-> its length]; cuts do not
\* overlap.
PiecesBetween(str, cuts) ==
  LET n == Cardinality(cuts)
      Nth(k) == CHOOSE c \in cuts : Cardinality({d \in cuts : d.at < c.at}) = k - 1
  IN [k \in 1..(n + 1) |->
        SubSeq(str,
               IF k = 1 THEN 1 ELSE Nth(k - 1).at + Nth(k - 1).len,
               IF k = n + 1 THEN Len(str) ELSE Nth(k).at - 1)]

\* The pieces of str between the occurrences of sep (which do not overlap
\* in the strings split here).
SplitOn(str, sep) ==
  PiecesBetween(str, {[at |-> i, len |-> Len(sep)] : i \in Occurrences(str, sep)})

\* 'pip install', 'npm install', 'gem install': the install sub-command of
\* each language that supports dependencies.
InstallCommand(languageId) ==
  CASE languageId = "python" -> <<112, 105, 112, 32, 105, 110, 115, 116, 97, 108, 108>>
    [] languageId = "javascript" -> <<110, 112, 109, 32, 105, 110, 115, 116, 97, 108, 108>>
    [] languageId = "ruby" -> <<103, 101, 109, 32, 105, 110, 115, 116, 97, 108, 108>>

\* hasDeps: true
HasDeps == {"python", "javascript", "ruby"}

\* How the install sub-command of the language writes the token dep.
Names(languageId, dep) ==
  IF languageId = "python" THEN Quote \o dep \o Quote ELSE dep

\* C19: the command built for an empty list contains none of 'pip install',
\* 'npm install', 'gem install', whatever the language; the command built by
\* python, javascript or ruby for a non-empty list has exactly one stage
\* (between ' && ') that starts with an install sub-command, the language's
\* own, and its words after the command and its flag are the tokens of the
\* list, each once, in the list's order.
C19_InstallStageIffDeps ==
  \A r \in Runs :
    LET s == run[r]
        stages == SplitOn(s.shellCmd, AndThen)
        installs == {i \in 1..Len(stages) :
                       \E l \in HasDeps : HasPrefix(stages[i], InstallCommand(l))}
    IN s.shellCmd # <<>>
       => /\ s.dependencies = <<>>
               => \A l \in HasDeps : ~Contains(s.shellCmd, InstallCommand(l))
          /\ (s.dependencies # <<>> /\ s.languageId \in HasDeps)
               => /\ Cardinality(installs) = 1
                  /\ \A i \in installs :
                       LET words == SplitOn(stages[i], Space)
                       IN /\ HasPrefix(stages[i], InstallCommand(s.languageId))
                          /\ Len(words) = 3 + Len(s.dependencies)
                          /\ \A k \in 1..Len(s.dependencies) :
                               words[3 + k] = Names(s.languageId, s.dependencies[k])

\* C19 witness: python built the command for the list ['rq', 'b'], and it
\* contains 'pip install --quiet "rq" "b" && '.
C19_Witness ==
  /\ run[1].languageId = "python"
  /\ run[1].dependencies = <<<<114, 113>>, <<98>>>>
  /\ Contains(run[1].shellCmd,
              PythonInstall \o Quote \o <<114, 113>> \o Quote \o Space
                \o Quote \o <<98>> \o Quote \o AndThen)

----------------------------------------------------------------------------
(* The command as sh -c reads it (Cmd: ['sh', '-c', shellCmd]): double     *)
(* quotes group characters into a word, and outside quotes '&&', ';' and   *)
(* '&' end a command and blanks separate its words.                        *)

\* Position i of str lies inside double quotes.
Quoted(str, i) == Cardinality({j \in 1..(i - 1) : str[j] = 34}) % 2 = 1

\* The control operators of str: '&&', ';' and a single '&', unquoted.
ShOperators(str) ==
  LET Is(i, c) == i \in 1..Len(str) /\ str[i] = c
      Bare(i, c) == Is(i, c) /\ ~Quoted(str, i)
  IN {[at |-> i, len |-> 2, op |-> "&&"] :
        i \in {i \in 1..Len(str) : Bare(i, 38) /\ Is(i + 1, 38) /\ ~Is(i - 1, 38)}}
     \cup {[at |-> i, len |-> 1, op |-> ";"] :
             i \in {i \in 1..Len(str) : Bare(i, 59)}}
     \cup {[at |-> i, len |-> 1, op |-> "&"] :
             i \in {i \in 1..Len(str) :
                      Bare(i, 38) /\ ~Is(i + 1, 38) /\ ~Is(i - 1, 38)}}

\* The words of one command: the pieces between unquoted blanks that are
\* not empty, their quotes removed.
ShWords(text) ==
  LET blanks == {[at |-> i, len |-> 1] :
                   i \in {i \in 1..Len(text) : text[i] = 32 /\ ~Quoted(text, i)}}
      pieces == SelectSeq(PiecesBetween(text, blanks), LAMBDA w : w # <<>>)
  IN [k \in 1..Len(pieces) |-> SelectSeq(pieces[k], LAMBDA c : c # 34)]

\* The commands of str in the order the shell meets them, each with the
\* operator that follows it ("end" after the last).
ShStages(str) ==
  LET ops == ShOperators(str)
      n == Cardinality(ops)
      Nth(k) == CHOOSE o \in ops : Cardinality({q \in ops : q.at < o.at}) = k - 1
      texts == PiecesBetween(str, {[at |-> o.at, len |-> o.len] : o \in ops})
  IN [k \in 1..(n + 1) |->
        [words |-> ShWords(texts[k]),
         then  |-> IF k = n + 1 THEN "end" ELSE Nth(k).op]]

\* fileName of a registry entry
fileName(languageId) ==
  CASE languageId = "python" -> <<115, 99, 114, 105, 112, 116, 46, 112, 121>>
    [] languageId = "javascript" -> <<115, 99, 114, 105, 112, 116, 46, 106, 115>>
    [] languageId = "go" -> <<115, 99, 114, 105, 112, 116, 46, 103, 111>>
    [] languageId = "ruby" -> <<115, 99, 114, 105, 112, 116, 46, 114, 98>>
    [] languageId = "java" -> <<77, 97, 105, 110, 46, 106, 97, 118, 97>>
    [] languageId = "c" -> <<115, 99, 114, 105, 112, 116, 46, 99>>
    [] languageId = "cpp" -> <<115, 99, 114, 105, 112, 116, 46, 99, 112, 112>>

\* '/input/': the read-only mount of the staging directory
InputMount == <<47, 105, 110, 112, 117, 116, 47>>

\* What a command does, by the program it names: 'cp' copies; 'pip', 'npm'
\* and 'gem' install; 'javac', 'gcc' and 'g++' compile; 'python', 'node',
\* 'go', 'ruby', 'java' and './prog' run.
StageKind(words) ==
  IF words = <<>> THEN "none"
  ELSE IF words[1] = <<99, 112>> THEN "copy"
  ELSE IF words[1] \in {<<112, 105, 112>>, <<110, 112, 109>>, <<103, 101, 109>>} THEN "install"
  ELSE IF words[1] \in {<<106, 97, 118, 97, 99>>, <<103, 99, 99>>, <<103, 43, 43>>}
  THEN "compile"
  ELSE IF words[1] \in {<<112, 121, 116, 104, 111, 110>>, <<110, 111, 100, 101>>,
                        <<103, 111>>, <<114, 117, 98, 121>>, <<106, 97, 118, 97>>,
                        <<46, 47, 112, 114, 111, 103>>}
  THEN "run"
  ELSE "other"

\* The languages whose command compiles before it runs.
Compiled == {"java", "c", "cpp"}

\* C20 (the claim as stated): the shell reads every built command as a
\* chain of commands joined by '&&' only: first 'cp /input/<fileName> .',
\* then the install stage if the language supports dependencies and the
\* list is not empty, then the compile stage if the language has one, then
\* the run stage; and no command after the copy is a file under /input or
\* compiles or runs one.
C20_CopyInstallCompileRun ==
  \A r \in Runs :
    LET s == run[r]
        stages == ShStages(s.shellCmd)
        kinds == [k \in 1..Len(stages) |-> StageKind(stages[k].words)]
    IN s.shellCmd # <<>>
       => /\ \A k \in 1..(Len(stages) - 1) : stages[k].then = "&&"
          /\ stages[1].words
               = <<<<99, 112>>, InputMount \o fileName(s.languageId), <<46>>>>
          /\ kinds = <<"copy">>
                      \o (IF s.languageId \in HasDeps /\ s.dependencies # <<>>
                          THEN <<"install">> ELSE <<>>)
                      \o (IF s.languageId \in Compiled
                          THEN <<"compile">> ELSE <<>>)
                      \o <<"run">>
          /\ \A k \in 2..Len(stages) :
               \A w \in 1..Len(stages[k].words) :
                 (w = 1 \/ kinds[k] \in {"compile", "run"})
                   => ~HasPrefix(stages[k].words[w], InputMount)

----------------------------------------------------------------------------
(* Properties of the adapters' input handling (SpecInput)                  *)

\* The positions where a maximal run of characters outside seps starts, and
\* where the run starting at i ends.
RunStarts(str, seps) ==
  { i \in 1..Len(str) :
      /\ str[i] \notin seps
      /\ (i = 1 \/ str[i - 1] \in seps) }

RunEnd(str, seps, i) ==
  CHOOSE j \in i..Len(str) :
    /\ \A k \in i..j : str[k] \notin seps
    /\ (j = Len(str) \/ str[j + 1] \in seps)

\* The maximal non-empty runs of characters outside seps, in the order they
\* start.
MaximalRuns(str, seps) ==
  [n \in 1..Cardinality(RunStarts(str, seps)) |->
     LET i == CHOOSE s \in RunStarts(str, seps) :
                Cardinality({u \in RunStarts(str, seps) : u < s}) = n - 1
     IN SubSeq(str, i, RunEnd(str, seps, i))]

\* Whitespace and the comma.
Separators == {32, 9, 10, 13, 44}

Tokens(text) == MaximalRuns(text, Separators)

\* The dependency text of request r, '' when the payload has none.
DependencyText(r) ==
  normalizeRunPayload(req[r].payload[1]).dependencies

\* C21: the dependencies an adapter hands to runExecution are the maximal
\* non-empty runs of characters of the request's dependency text that are
\* neither whitespace nor comma, in their order in the text -- none for the
\* empty text and for a text of separators only, 'a', 'b', 'c' for
\* ' a, b  c ,' -- and so the same list under the bridge and the desktop
\* application.
C21_TokensAreMaximalRuns ==
  /\ Tokens(<<>>) = <<>>
  /\ Tokens(SpacedList) = << <<97>>, <<98>>, <<99>> >>
  /\ \A r \in Runs :
       run[r].pc # "idle" => run[r].dependencies = Tokens(DependencyText(r))

\* A call was made with the tokens of ' a, b  c ,'.
C21_Witness ==
  /\ run[1].pc # "idle"
  /\ DependencyText(1) = SpacedList
  /\ run[1].dependencies = << <<97>>, <<98>>, <<99>> >>

\* The requests answered with the language list.
ListReplies == {"languages", "200 languages"}

\* C22: the list a 'get-languages' request and a GET /languages request are
\* answered with has one entry per registry key, in the registry's order;
\* each entry has exactly the fields id, label, hasDeps, depsLabel and
\* depsPlaceholder, with the registry's values, and no function among them;
\* each registry key is the id of its entry.
C22_LanguageListShape ==
  /\ \A i \in 1..Len(RegistryKeys) :
       LanguageEntry(RegistryKeys[i]).id = Str(RegistryKeys[i])
  /\ \A r \in Runs :
       req[r].reply \in ListReplies =>
         LET list == req[r].languages
         IN /\ Len(list) = Len(RegistryKeys)
            /\ \A i \in 1..Len(list) :
                 /\ DOMAIN list[i] = ListedFields
                 /\ "buildCommand" \notin DOMAIN list[i]
                 /\ \A f \in DOMAIN list[i] :
                      /\ list[i][f].type # "function"
                      /\ f \in ListedFields =>
                           list[i][f] = LanguageEntry(RegistryKeys[i])[f]
                 /\ list[i].id = Str(RegistryKeys[i])

\* The desktop application answered a request with the seven languages.
C22_Witness ==
  \E r \in Runs :
    /\ req[r].reply = "languages"
    /\ Len(req[r].languages) = 7
    /\ req[r].languages[7].id = Str("cpp")

----------------------------------------------------------------------------
(* Properties of the deadline and of termination                           *)

\* The awaits of a call that come before its race.
BeforeRace == {"inspect", "create", "attach", "start"}

\* C23: the timeout bounds the whole session -- while a call awaits the
\* image inspection, the creation of the container, the attach or the start,
\* its timer is armed, so that a step that never returns is ended by it.
C23_DeadlineCoversWholeSession ==
  \A r \in Runs :
    run[r].pc \in BeforeRace => run[r].timeoutHandle = "armed"

\* C24: with an engine whose calls all settle and a timer that fires, every
\* call of runExecution eventually resolves, and when it has resolved the
\* removal of its container (if it created one) and the deletion of its
\* staging directory (if it made one) have been attempted.
C24_ResolvesAfterTeardown ==
  \A r \in Runs :
    /\ (run[r].pc # "idle") ~> (run[r].pc = "done")
    /\ [](run[r].pc = "done" =>
            /\ HasCalled(run[r], "mkdirSync") => HasCalled(run[r], "rmSync")
            /\ run[r].container # 0 => run[r].removed # "none")

\* C25: a settled call has no armed timer; after it settled, timedOut does
\* not change and container.kill() is not called; timedOut changes only from
\* false to true, only in the timer's callback, and only while the call
\* awaits the race, before its catch and finally blocks.
C25_TimerReleased ==
  /\ [](\A r \in Runs : Settled(run[r]) => run[r].timeoutHandle # "armed")
  /\ [][\A r \in Runs :
          /\ Settled(run[r]) =>
               /\ run'[r].timedOut = run[r].timedOut
               /\ CallCount(run'[r], "kill") = CallCount(run[r], "kill")
          /\ run'[r].timedOut # run[r].timedOut =>
               /\ ~run[r].timedOut
               /\ run[r].pc = "race"
               /\ run[r].timeoutHandle = "armed"
               /\ run'[r].timeoutHandle = "fired"
          /\ CallCount(run'[r], "kill") <= 1]_vars

\* A call whose container exited before the deadline resolved with its
\* timer cleared.
C25_Witness ==
  /\ run[1].pc = "done"
  /\ run[1].timeoutHandle = "cleared"
  /\ ~run[1].timedOut
  /\ run[1].result # <<>>

----------------------------------------------------------------------------
(* Properties of the adapters' flag                                        *)

\* A run handler is between the statement that set the flag and its return.
HandlerActive(r) == req[r].pc = "running"

\* C26: when no run handler that set isRunning is still active -- each has
\* returned or thrown, whether runExecution resolved, rejected, or a step
\* before the try block threw -- isRunning is false, so that the next run
\* request is not answered 'An execution is already in progress'.
C26_FlagFalseWhenNoRunActive ==
  (\A r \in Runs : ~HandlerActive(r)) => ~isRunning

\* The replies of a run request the input validation rejected: the body is
\* no JSON or the code is blank (bridge); the code is blank or the languageId
\* is no registry key (desktop application).
ValidationReplies ==
  {"400 invalid request", "400 code is required",
   "Code is required", "Unsupported language"}

\* C27: the step that answers a run request with a validation error leaves
\* isRunning as it was, calls nothing (no call of runExecution is made, no
\* container is created) and sends no event to the renderer; the request's
\* call of runExecution is never made.
C27_ValidationRejectionHasNoEffect ==
  /\ [](\A r \in Runs :
          req[r].reply \in ValidationReplies =>
            run[r].pc = "idle" /\ run[r].calls = <<>>)
  /\ [][\A r \in Runs :
          (req[r].pc # "replied" /\ req'[r].reply \in ValidationReplies) =>
            /\ isRunning' = isRunning
            /\ run' = run
            /\ nextId' = nextId
            /\ sent' = sent]_vars

\* The desktop application rejected a blank program while an execution was
\* in progress, and sent nothing for it.
C27_Witness ==
  /\ app = "desktop"
  /\ isRunning
  /\ req[2].reply = "Code is required"
  /\ run[2].pc = "idle"
  /\ run[1].pc = "inspect"
  /\ \A i \in 1..Len(sent) :
       sent[i].channel = "execution-state" => sent[i].running

----------------------------------------------------------------------------
(* Properties of the demultiplexer: channels and order (SpecDemux)         *)

\* The bytes the first n frames take in the stream.
RECURSIVE BytesOf(_, _)
BytesOf(frames, n) ==
  IF n = 0 THEN 0 ELSE BytesOf(frames, n - 1) + 8 + Len(frames[n].payload)

\* The frames of the stream that have reached the handler whole, in the
\* order they stand in the stream.
Delivered(s) ==
  LET frames == FramesOf(s.stream)
      n == Cardinality({k \in 1..Len(frames) : BytesOf(frames, k) <= s.pos})
  IN SubSeq(frames, 1, n)

\* The channel of a frame, by the first byte of its header.
Channel(frame) == IF frame.type = 2 THEN "stderr" ELSE "stdout"

\* The non-empty lines of the frames, frame after frame, each on the channel
\* of its frame.
RECURSIVE LinesOfFrames(_)
LinesOfFrames(frames) ==
  IF frames = <<>> THEN <<>>
  ELSE LET lines == MaximalRuns(Head(frames).payload, {NL})
       IN [i \in 1..Len(lines) |-> Line(Channel(Head(frames)), "", lines[i])]
          \o LinesOfFrames(Tail(frames))

OnChannel(lines, channel) == SelectSeq(lines, LAMBDA l : l.type = channel)

\* C28: the lines forwarded are the non-empty lines of the frames delivered
\* so far, in the order of the frames in the stream, a line being tagged
\* stderr if the first header byte of its frame is 2 and stdout otherwise;
\* no forwarded line is empty; and on each channel the lines are those of
\* the channel's frames, in the frames' order.
C28_ChannelsAndOrder ==
  \A r \in Runs :
    run[r].handler =>
      LET lines == ProgramLines(run[r])
          frames == Delivered(run[r])
      IN /\ lines = LinesOfFrames(frames)
         /\ \A i \in 1..Len(lines) :
              lines[i].data # <<>> /\ lines[i].type \in {"stdout", "stderr"}
         /\ \A channel \in {"stdout", "stderr"} :
              OnChannel(lines, channel) =
                LinesOfFrames(SelectSeq(frames, LAMBDA f : Channel(f) = channel))

\* A stderr frame, then a frame that is neither stdout nor stderr, were
\* delivered, and their lines forwarded on stderr and stdout in that order.
C28_Witness ==
  /\ run[1].pos = Len(run[1].stream)
  /\ Len(FramesOf(run[1].stream)) = 2
  /\ FramesOf(run[1].stream)[1].type = 2
  /\ FramesOf(run[1].stream)[2] = OtherFrame
  /\ Len(ProgramLines(run[1])) = 2
  /\ ProgramLines(run[1])[1].type = "stderr"
  /\ ProgramLines(run[1])[2].type = "stdout"

----------------------------------------------------------------------------
(* Properties of the container handle                                      *)

\* The methods runExecution calls on its container handle.
HandleCalls == {"attach", "start", "wait", "kill", "remove"}

\* C29: a call of runExecution calls createContainer at most once; it calls
\* attach, start, wait, kill and remove only after its own createContainer
\* gave it a handle, and none of them after it has called remove; and no two
\* calls of runExecution hold the same container.
C29_OneContainerPerRun ==
  \A r \in Runs :
    LET s == run[r]
    IN /\ CallCount(s, "createContainer") <= 1
       /\ \A i \in 1..Len(s.calls) :
            s.calls[i] \in HandleCalls =>
              /\ s.container # 0
              /\ \E j \in 1..(i - 1) : s.calls[j] = "createContainer"
              /\ \A j \in 1..(i - 1) : s.calls[j] # "remove"
       /\ \A q \in Runs \ {r} :
            s.container # 0 => run[q].container # s.container

\* Two calls in flight at once (the bridge let both through), each with its
\* own container, one of them already removed after a timeout's kill.
C29_Witness ==
  /\ run[1].container # 0
  /\ run[2].container # 0
  /\ run[1].container # run[2].container
  /\ HasCalled(run[1], "kill")
  /\ run[1].removed = "ok"
  /\ InFlight(run[2])

----------------------------------------------------------------------------
(* Properties of the order of the output                                   *)

\* The place of a system notice in a run's report.
NoticeRank(text) ==
  CASE text = "Language" -> 1
    [] text = "Installing" -> 2
    [] text = "Container created" -> 3
    [] text = "Execution started" -> 4
    [] text \in {"Completed successfully", "Exited with code", "ERROR",
                 "TIMEOUT", "Unknown language"} -> 5
    [] text = "Container destroyed" -> 6

\* The system notices of s are in the order of their ranks, none twice.
NoticesInOrder(s) ==
  LET notices == SystemNotices(s)
  IN \A i, j \in 1..Len(notices) :
       i < j => NoticeRank(notices[i].text) < NoticeRank(notices[j].text)

\* C30: the system notices of a call come in the order Language, Installing
\* (with dependencies), Container created, Execution started, the outcome,
\* Container destroyed; and a line of the program's output is forwarded only
\* after the notice 'Execution started'.
C30_NoticesInOrderOutputAfterStart ==
  \A r \in Runs :
    LET s == run[r]
    IN /\ NoticesInOrder(s)
       /\ \A i \in 1..Len(s.onLine) :
            s.onLine[i].type # "system" =>
              \E j \in 1..(i - 1) : s.onLine[j] = System("Execution started", <<>>)

----------------------------------------------------------------------------
(* Properties of the outcome notice                                        *)

\* The notices that report how a run ended.
OutcomeNotices ==
  {"Completed successfully", "Exited with code", "TIMEOUT", "ERROR"}

\* The outcome notices the run has emitted.
OutcomeCount(s) ==
  Cardinality({i \in 1..Len(s.onLine) :
                 s.onLine[i].type = "system" /\ s.onLine[i].text \in OutcomeNotices})

\* C31: a call on a known language that got past staging (it reached the
\* image check) and has settled has emitted exactly one outcome notice,
\* whatever the order of the timer, kill() and wait().
C31_ExactlyOneOutcomeNotice ==
  \A r \in Runs :
    LET s == run[r]
    IN (Settled(s) /\ s.languageId \in LANGUAGES /\ HasCalled(s, "inspect"))
       => OutcomeCount(s) = 1

----------------------------------------------------------------------------
(* Properties of the 'Container destroyed' notice                          *)

----------------------------------------------------------------------------
(* Properties of the languages without dependencies (SpecBuild)            *)

\* The languages whose buildCommand ignores its argument.
IgnoresDeps == {"go", "java", "c", "cpp"}

\* C33: the command built by go, java, c or cpp is the one built for the
\* empty list, whatever the dependency list; and a call emits the notice
\* 'Installing', once and with the list, exactly when the list is not
\* empty, in every language.
C33_DepsIgnoredButAnnounced ==
  \A r \in Runs :
    LET s == run[r]
    IN s.shellCmd # <<>>
       => /\ s.languageId \in IgnoresDeps
               => /\ s.shellCmd = buildCommand(s.languageId, <<>>)
                  /\ \A l \in HasDeps : ~Contains(s.shellCmd, InstallCommand(l))
          /\ NoticeCount(s, "Installing")
               = (IF s.dependencies # <<>> THEN 1 ELSE 0)
          /\ \A i \in 1..Len(s.onLine) :
               s.onLine[i].text = "Installing" => s.onLine[i].data = s.dependencies

\* go was called with the list ['rq', 'b']: the notice names both, and the
\* command is 'cp /input/script.go . && go run script.go'.
C33_Witness ==
  /\ run[1].languageId = "go"
  /\ run[1].dependencies = << <<114, 113>>, <<98>> >>
  /\ run[1].shellCmd = GoCommand
  /\ HasNotice(run[1], "Installing")

============================================================================
